---- MODULE Spec2Model ----
(***************************************************************************)
(* TeslaStream: the streaming client of eiannone/tesla-api, as a state     *)
(* machine.  The variables are the fields of one TeslaStream object, the   *)
(* timers node holds for it, and what the last handler did (its log lines, *)
(* emitted events, frames and new transports, in program order).           *)
(*                                                                         *)
(* JavaScript values: a string that the code takes apart (a payload, a     *)
(* column list joined by commas) is a sequence of atoms, the atom ","      *)
(* being the comma; "" is <<>>.  null and undefined are the marker         *)
(* sequences NULL and UNDEFINED.  A tag is a record that keeps its type,   *)
(* so that tag.toString() is a conversion.  An omitted/null `columns`      *)
(* argument is NoColumns.                                                  *)
(***************************************************************************)
EXTENDS Integers, Sequences, FiniteSets, TLC

VARIABLES
    state,           \* this.state
    ws,              \* this.ws: the transport, with the closure of the connect() that made it
    columns,         \* this.columns
    checkTimeout,    \* this.checkTimeout: a timer handle or NoHandle
    timeouts,        \* this.timeouts
    disconnects,     \* this.disconnects
    reconnect,       \* this.reconnect
    tag,             \* this.tag
    lastShiftState,  \* this.lastShiftState
    timers,          \* the timers node holds pending (set by setTimeout, not yet fired or cleared)
    out,             \* what the last handler did, in order: log, emit, send, new_ws, throw
    act,             \* the last handler that ran, with its inputs
    lastCall,        \* history: the caller's last call of connect()/disconnect() and where it was made
    given,           \* history: tag, token and columns of the caller's most recent connect(),
                     \* and the resubscribeDelay of its most recent connect() that opened a transport
    openedBy,        \* history: who made the current (or last) transport: "caller" or "timer"
    stopSinceOpen,   \* history: the caller called disconnect(false) since that transport was made
    subscribed,      \* history: the `value` of the last subscribe frame sent on the transport
    sentSubscribes,  \* history: the first and the last subscribe frame sent on the transport
                     \* (kept only in the behaviours that start with it set to NoSubscribes)
    api              \* one TeslaApi object (TeslaApi.js) and the refreshToken() call in progress

vars == <<state, ws, columns, checkTimeout, timeouts, disconnects, reconnect, tag,
          lastShiftState, timers, out, act, lastCall, given, openedBy, stopSinceOpen,
          subscribed, sentSubscribes, api>>

----------------------------------------------------------------------------
(* Bounds of the model *)

MaxTimeouts == 6
MaxDisconnects == 11
LowTimeouts == 1
LowDisconnects == 1

----------------------------------------------------------------------------
(* Constants of the program *)

CONNECTING == 1
CONNECTED == 2
CLOSING == 3
CLOSED == 4

DEFAULT_COLUMNS ==
    << "elevation", "est_heading", "est_lat", "est_lng", "odometer", "power",
       "shift_state", "speed", "soc" >>

NULL == << "<null>" >>
UNDEFINED == << "<undefined>" >>
NoColumns == << "<no columns>" >>
NoHandle == "none"
NoWs == [rs |-> "none"]
NullTag == [type |-> "null", v |-> ""]
NoSubscription == << "<none>" >>
NoFrame == [msg_type |-> "<none>"]
NoSubscribes == [first |-> NoFrame, last |-> NoFrame]
NullToken == "<null>"

\* new TeslaApi(): lines 25-30 of TeslaApi.js, before the arguments are stored; the
\* fields passed..settled describe the refreshToken() call in progress or just settled
\* (requests, callbacks, response and before are history: the requests sent, the
\* callback invocations, the last answer, and the tokens and callback at the call);
\* rest is the call of #apiCall in progress or just settled
NoRequest == [path |-> "<none>", method |-> "<none>", params |-> "<none>"]

\* no call of #apiCall made yet
RestIdle == [pc |-> "idle", req |-> NoRequest, settled |-> "none"]

ApiNew ==
    [pc |-> "new", token |-> NullToken, refresh_token |-> NullToken, cb |-> "none",
     passed |-> NullToken, retry |-> 0, requests |-> 0, callbacks |-> <<>>,
     response |-> [kind |-> "none"], before |-> [token |-> NullToken,
     refresh_token |-> NullToken, cb |-> "none"], settled |-> "none",
     rest |-> RestIdle]

FramesNotKept == [first |-> [msg_type |-> "<not kept>"], last |-> [msg_type |-> "<not kept>"]]

TimerIds == {"h1", "h2", "h3", "h4"}

----------------------------------------------------------------------------
(* Pure helpers *)

\* tag.toString(): a number becomes the string of its digits
toString(t) == [type |-> "string", v |-> t.v]

RECURSIVE indexFrom(_, _, _)
indexFrom(seq, x, i) ==
    IF i > Len(seq) THEN -1
    ELSE IF seq[i] = x THEN i - 1
    ELSE indexFrom(seq, x, i + 1)

\* Array.prototype.indexOf, 0-based, -1 when absent
indexOf(seq, x) == indexFrom(seq, x, 1)

RECURSIVE join(_)
\* columns.join(','): the names with a comma atom between them
join(cols) ==
    IF Len(cols) = 0 THEN <<>>
    ELSE IF Len(cols) = 1 THEN <<cols[1]>>
    ELSE <<cols[1], ",">> \o join(Tail(cols))

RECURSIVE splitFrom(_, _, _)
splitFrom(str, i, cur) ==
    IF i > Len(str) THEN <<cur>>
    ELSE IF str[i] = "," THEN <<cur>> \o splitFrom(str, i + 1, <<>>)
    ELSE splitFrom(str, i + 1, Append(cur, str[i]))

\* d.value.split(","): always at least one element
split(str) == splitFrom(str, 1, <<>>)

\* values[i] for a 0-based i: undefined past the end
at(values, i) == IF i >= 0 /\ i < Len(values) THEN values[i + 1] ELSE UNDEFINED

RECURSIVE pow(_, _)
pow(b, e) == IF e = 0 THEN 1 ELSE b * pow(b, e - 1)

RECURSIVE satPow(_, _, _, _)
\* num^e as long as (num/den)^e < cap, else -1 (bases >= 1 only): the power saturates
\* at the ceiling and is never computed past it, which keeps it within 32-bit integers
satPow(num, den, e, cap) ==
    IF e = 0 THEN (IF 1 >= cap THEN -1 ELSE 1)
    ELSE LET p == satPow(num, den, e - 1, cap) IN
         IF p = -1 THEN -1
         ELSE IF num * p >= cap * pow(den, e) THEN -1
         ELSE num * p

\* Math.round(x * 1000) for x = n / 10^k
roundMs(n, k) ==
    IF k <= 3 THEN n * pow(10, 3 - k)
    ELSE (2 * n + pow(10, k - 3)) \div (2 * pow(10, k - 3))

expBackOffMs_floorLast(exp, minSeconds, maxSeconds, num, k) ==
    LET den == pow(10, k)
        p == satPow(num, den, exp, maxSeconds)
    IN  IF p = -1 THEN (IF minSeconds > maxSeconds THEN minSeconds ELSE maxSeconds) * 1000
        ELSE IF p <= minSeconds * pow(den, exp) THEN minSeconds * 1000
        ELSE roundMs(p, k * exp)

\* #expBackOffMs(exp, minSeconds, maxSeconds, base) with base = num/den, den a power
\* of ten 10^k per exponent step (2 = 2/1, 1.3 = 13/10)
expBackOffMs(exp, minSeconds, maxSeconds, num, k) ==
    LET den == pow(10, k)
        p == satPow(num, den, exp, maxSeconds)
    IN  IF p = -1 THEN maxSeconds * 1000
        ELSE IF p <= minSeconds * pow(den, exp)
             THEN (IF minSeconds < maxSeconds THEN minSeconds ELSE maxSeconds) * 1000
        ELSE roundMs(p, k * exp)

----------------------------------------------------------------------------
(* The object, as a record, so that a handler is a function from the object  *)
(* before to the object after.                                              *)

Self ==
    [state |-> state, ws |-> ws, columns |-> columns, checkTimeout |-> checkTimeout,
     timeouts |-> timeouts, disconnects |-> disconnects, reconnect |-> reconnect,
     tag |-> tag, lastShiftState |-> lastShiftState, timers |-> timers, out |-> <<>>]

\* this.log(msg, level)
log(s, msg, level) ==
    [s EXCEPT !.out = Append(@, [t |-> "log", name |-> msg, arg |-> level])]

\* this.emit(event, arg)
emit(s, event, arg) ==
    [s EXCEPT !.out = Append(@, [t |-> "emit", name |-> event, arg |-> arg])]

\* an exception leaves the handler: nothing after it runs
throw(s, error) ==
    [s EXCEPT !.out = Append(@, [t |-> "throw", name |-> error, arg |-> <<>>])]

\* this.ws.send(JSON.stringify(frame)): ws throws while the socket is connecting and
\* drops the data without an error once the socket is closing or closed
wsSend(s, frame) ==
    IF s.ws = NoWs THEN throw(s, "TypeError")
    ELSE IF s.ws.rs = "CONNECTING" THEN throw(s, "Error: WebSocket is not open")
    ELSE [s EXCEPT !.out = Append(@, [t |-> "send", name |-> frame.msg_type,
                                      arg |-> [frame |-> frame, rs |-> s.ws.rs]])]

\* this.ws.close(): the closing handshake starts
wsClose(s) == [s EXCEPT !.ws.rs = "CLOSING"]

\* clearTimeout(handle)
clearTimeout(s, handle) ==
    [s EXCEPT !.timers = {tm \in @ : tm.id # handle}]

\* the handle of a new timer: one that no pending timer has (the field that held the
\* handle of a fired or cleared timer is overwritten by the assignment of line 114,
\* 135, 143 or 189)
freshHandle(s) ==
    CHOOSE h \in TimerIds : \A tm \in s.timers : tm.id # h

\* this.checkTimeout = setTimeout(callback, ms); cl is what the callback closes over
setTimeout(s, kind, ms, cl) ==
    LET h == freshHandle(s) IN
    [s EXCEPT !.timers = @ \cup {[id |-> h, kind |-> kind, ms |-> ms, cl |-> cl]},
              !.checkTimeout = h]

\* if (this.checkTimeout != null) clearTimeout(this.checkTimeout)
clearIfSet(s) ==
    IF s.checkTimeout # NoHandle THEN clearTimeout(s, s.checkTimeout) ELSE s

NoClosure == [tag |-> NullTag, token |-> "", columns |-> NoColumns]

isConnected == state = CONNECTED
isClosed == state = CLOSED
isClosing == state = CLOSING

----------------------------------------------------------------------------
(* The methods *)

unsubscribeFrame(s) == [msg_type |-> "data:unsubscribe", tag |-> s.tag]

\* disconnect: lines 59-63, the transport is still opening
deferDisconnect(s, rc, unsubscribe) ==
    [s EXCEPT !.ws.onOpen = [kind |-> "deferred", reconnect |-> rc,
                             unsubscribe |-> unsubscribe]]

closeTransport_alwaysUnsubscribes(s, unsubscribe) ==
    LET s1 == [s EXCEPT !.state = CLOSING] IN
    IF s1.ws.rs # "CLOSING"
    THEN wsClose(log(wsSend(log(s1, "Unsubscribing...", "debug"),
                            [msg_type |-> "data:unsubscribe", tag |-> s1.tag]),
                     "Sending closing frame...", "debug"))
    ELSE s1

\* disconnect: lines 64-72, the transport is open or closing
closeTransport(s, unsubscribe) ==
    LET s1 == [s EXCEPT !.state = CLOSING] IN
    IF s1.ws.rs # "CLOSING"
    THEN LET s2 == IF unsubscribe
                   THEN wsSend(log(s1, "Unsubscribing...", "debug"), unsubscribeFrame(s1))
                   ELSE s1
         IN  wsClose(log(s2, "Sending closing frame...", "debug"))
    ELSE s1

\* disconnect: lines 50-53
cancelPending(s) ==
    IF s.checkTimeout # NoHandle
    THEN [clearTimeout(s, s.checkTimeout) EXCEPT !.checkTimeout = NoHandle]
    ELSE s

disconnect(s, rc, unsubscribe) ==
    IF s.state = CLOSED THEN s
    ELSE LET s1 == cancelPending([s EXCEPT !.reconnect = rc]) IN
         IF s1.ws = NoWs \/ s1.ws.rs = "CLOSED"
         THEN [s1 EXCEPT !.ws = NoWs, !.state = CLOSED]
         ELSE IF s1.ws.rs = "CONNECTING" THEN deferDisconnect(s1, rc, unsubscribe)
         ELSE closeTransport(s1, unsubscribe)

priv_reconnect_unsubscribes(s) ==
    disconnect(log(s, "Disconnecting and reconnecting...", "debug"), TRUE, TRUE)

\* #reconnect
priv_reconnect(s) ==
    disconnect(log(s, "Disconnecting and reconnecting...", "debug"), TRUE, FALSE)

inactiveDue_every5th(n) == n % 5 = 0

\* #timeout: line 84
inactiveDue(n) == n % 3 = 0

\* #timeout
timeout(s) ==
    LET s1 == [s EXCEPT !.timeouts = @ + 1]
        s2 == log(s1, "Stream connection timed out",
                  IF s1.timeouts < 8 THEN "debug" ELSE "info")
        s3 == IF inactiveDue(s2.timeouts)
              THEN emit(log(s2, "Stream inactive!", "debug"), "inactive", <<>>)
              ELSE s2
    IN  priv_reconnect(s3)

subscribeFrame(s, tg, token) ==
    [msg_type |-> "data:subscribe_oauth", token |-> token, value |-> join(s.columns),
     tag |-> tg]

\* #subscribe
subscribe(s, tg, token) ==
    wsSend(log(s, "Subscribing to stream...", "debug"), subscribeFrame(s, tg, token))

tooManyDue_every5th(n) == n % 5 = 0

\* #disconnectResubscribe: line 105
tooManyDue(n) == n % 10 = 0

resubscribeMs_alwaysSlow(s, minDelay) ==
    expBackOffMs(s.disconnects, minDelay, 120, 2, 0)

\* #disconnectResubscribe: lines 110-112
resubscribeMs(s, minDelay) ==
    IF s.lastShiftState # NULL /\ s.lastShiftState # UNDEFINED /\ s.lastShiftState # <<>>
    THEN expBackOffMs(s.disconnects, 0, 8, 13, 1)
    ELSE expBackOffMs(s.disconnects, minDelay, 120, 2, 0)

clearBeforeResubscribe_skipped(s) == s

\* #disconnectResubscribe: line 104
clearBeforeResubscribe(s) == clearTimeout(s, s.checkTimeout)

\* #disconnectResubscribe
disconnectResubscribe(s, tg, token, reason, minDelay) ==
    LET s1 == [s EXCEPT !.disconnects = @ + 1]
        s2 == log(s1, reason, IF s1.disconnects < 8 THEN "debug" ELSE "info")
        s3 == clearBeforeResubscribe(s2)
    IN  IF tooManyDue(s3.disconnects)
        THEN emit(log(s3, "Too many disconnects!", "warn"), "too-many-disconnects", <<>>)
        ELSE setTimeout(log(s3, "Waiting...", "debug"), "resubscribe",
                        resubscribeMs(s3, minDelay),
                        [tag |-> tg, token |-> token, columns |-> NoColumns])

\* connect: lines 119-120
remember(s, tg, cols) ==
    [s EXCEPT !.tag = toString(tg),
              !.columns = IF cols # NoColumns THEN cols ELSE @]

\* connect: lines 127-135, a new transport with the listeners that close over the
\* arguments of this call
openTransport(s, tg, token, cols, resubscribeDelay) ==
    LET s1 == log([s EXCEPT !.state = CONNECTING], "Connecting to websocket...", "debug")
        s2 == [s1 EXCEPT !.ws = [rs |-> "CONNECTING", tag |-> tg, token |-> token,
                                 columns |-> cols, resubscribeDelay |-> resubscribeDelay,
                                 shiftStatePos |-> indexOf(s1.columns, "shift_state"),
                                 onOpen |-> [kind |-> "subscribe", reconnect |-> FALSE,
                                             unsubscribe |-> FALSE]],
                        !.out = Append(@, [t |-> "new_ws", name |-> "WebSocket",
                                           arg |-> [tag |-> tg, token |-> token,
                                                    columns |-> s1.columns]])]
    IN  setTimeout(clearIfSet(s2), "health", expBackOffMs(s2.timeouts, 10, 30, 2, 0),
                   NoClosure)

\* connect: lines 123-126, TRUE when the call returns without opening a transport
alreadyOpen(s) == s.ws # NoWs /\ s.ws.rs # "CLOSED"

connect(s, tg, token, cols, resubscribeDelay) ==
    LET s1 == remember(s, tg, cols)
        s2 == IF s1.ws # NoWs /\ s1.state = CLOSING THEN [s1 EXCEPT !.reconnect = TRUE]
              ELSE s1
    IN  IF alreadyOpen(s2) THEN s2
        ELSE openTransport(s2, tg, token, cols, resubscribeDelay)

----------------------------------------------------------------------------
(* The listeners of the transport and the timer callbacks *)

\* ws.on('open'): the listener connect() registers, or the one disconnect() put in
\* its place, whose body calls an undefined `disconnect` and throws
on_open(s) ==
    IF s.ws.onOpen.kind = "subscribe"
    THEN subscribe(log(s, "Websocket open.", "debug"), s.tag, s.ws.token)
    ELSE throw(s, "ReferenceError")

\* ws.on('message'): lines 142-143
rearmHealth(s) == setTimeout(clearIfSet(s), "health", 15000, NoClosure)

on_update_dropsTimestamp(s, m) ==
    LET values == split(m.value)
        s1 == emit(s, "stream", Tail(values))
        s2 == [s1 EXCEPT !.timeouts = 0, !.disconnects = 0]
    IN  IF s2.ws.shiftStatePos > -1
        THEN [s2 EXCEPT !.lastShiftState = at(values, s2.ws.shiftStatePos + 1)]
        ELSE s2

\* ws.on('message'): lines 149-154
on_update(s, m) ==
    LET values == split(m.value)
        s1 == emit(s, "stream", values)
        s2 == [s1 EXCEPT !.timeouts = 0, !.disconnects = 0]
    IN  IF s2.ws.shiftStatePos > -1
        THEN [s2 EXCEPT !.lastShiftState = at(values, s2.ws.shiftStatePos + 1)]
        ELSE s2

on_data_error_noReconnect(s, m) ==
    LET c == s.ws IN
    CASE m.error_type = "vehicle_disconnected" ->
            disconnectResubscribe(s, c.tag, c.token, "Vehicle disconnected",
                                  c.resubscribeDelay)
      [] m.error_type = "vehicle_error" ->
            disconnectResubscribe(
                IF m.value = <<"Vehicle is offline">> THEN emit(s, "offline", <<>>) ELSE s,
                c.tag, c.token, "Vehicle error", c.resubscribeDelay)
      [] m.error_type = "client_error" ->
            emit(log(s, "Client error", "error"), "error", m.value)
      [] OTHER -> throw(s, "ReferenceError")

\* ws.on('message'): lines 155-172
on_data_error(s, m) ==
    LET c == s.ws IN
    CASE m.error_type = "vehicle_disconnected" ->
            disconnectResubscribe(s, c.tag, c.token, "Vehicle disconnected",
                                  c.resubscribeDelay)
      [] m.error_type = "vehicle_error" ->
            disconnectResubscribe(
                IF m.value = <<"Vehicle is offline">> THEN emit(s, "offline", <<>>) ELSE s,
                c.tag, c.token, "Vehicle error", c.resubscribeDelay)
      [] m.error_type = "client_error" ->
            priv_reconnect(emit(log(s, "Client error", "error"), "error", m.value))
      [] OTHER -> throw(s, "ReferenceError")

NoErrorType == "<undefined>"

on_message_unknownReconnects(s, m) ==
    LET s1 == rearmHealth(s) IN
    IF m.msg_type = "<malformed>" THEN throw(s1, "SyntaxError")
    ELSE IF m.msg_type = "control:hello"
    THEN [log(s1, "Hello response received.", "debug") EXCEPT !.state = CONNECTED]
    ELSE IF m.msg_type = "data:update" THEN on_update(s1, m)
    ELSE IF m.msg_type = "data:error" /\ m.error_type # NoErrorType THEN on_data_error(s1, m)
    ELSE priv_reconnect(emit(log(s1, "Unknown message", "error"), "error", m.value))

\* ws.on('message')
on_message(s, m) ==
    LET s1 == rearmHealth(s) IN
    IF m.msg_type = "<malformed>" THEN throw(s1, "SyntaxError")
    ELSE IF m.msg_type = "control:hello"
    THEN [log(s1, "Hello response received.", "debug") EXCEPT !.state = CONNECTED]
    ELSE IF m.msg_type = "data:update" THEN on_update(s1, m)
    ELSE IF m.msg_type = "data:error" /\ m.error_type # NoErrorType THEN on_data_error(s1, m)
    ELSE emit(log(s1, "Unknown message", "error"), "error", m.value)

\* ws.on('error')
on_error(s) == log(s, "Websocket error", "error")

abnormalClose_anyState(s, code) ==
    IF code = 1006 THEN [s EXCEPT !.reconnect = TRUE] ELSE s

\* ws.on('close'): line 184
abnormalClose(s, code) ==
    IF code = 1006 /\ s.state # CLOSING THEN [s EXCEPT !.reconnect = TRUE] ELSE s

dropTransport_resetsCounters(s) ==
    [s EXCEPT !.ws = NoWs, !.state = CLOSED, !.timeouts = 0, !.disconnects = 0]

dropTransport_keepsHandle(s) == [s EXCEPT !.state = CLOSED]

\* ws.on('close'): lines 186-187
dropTransport(s) == [s EXCEPT !.ws = NoWs, !.state = CLOSED]

\* ws.on('close'): lines 188-193
scheduleReconnect(s, c) ==
    IF s.reconnect
    THEN setTimeout(s, "reconnect", 1000,
                    [tag |-> c.tag, token |-> c.token, columns |-> c.columns])
    ELSE s

\* ws.on('close')
on_close(s, code) ==
    LET c == s.ws
        s1 == abnormalClose(log(s, "Websocket closed", "debug"), code)
    IN  scheduleReconnect(dropTransport(clearIfSet(s1)), c)

\* the default of connect()'s fourth parameter
DefaultResubscribeDelay == 30

\* the callback of a timer: #timeout, the resubscribe of line 114, the reconnect of
\* lines 189-192
on_timer(s, tm) ==
    CASE tm.kind = "health" -> timeout(s)
      [] tm.kind = "resubscribe" -> subscribe(s, tm.cl.tag, tm.cl.token)
      [] tm.kind = "reconnect" ->
            connect(log(s, "Reconnecting...", "debug"), tm.cl.tag, tm.cl.token,
                    tm.cl.columns, DefaultResubscribeDelay)

----------------------------------------------------------------------------
(* Inputs *)

Params ==
    { [tag |-> [type |-> "number", v |-> "7"], token |-> "tokA",
       columns |-> NoColumns, resubscribeDelay |-> 30],
      [tag |-> [type |-> "string", v |-> "t1"], token |-> "tokB",
       columns |-> <<"shift_state", "speed">>, resubscribeDelay |-> 5],
      [tag |-> [type |-> "string", v |-> "t2"], token |-> "tokA",
       columns |-> <<"speed", "soc">>, resubscribeDelay |-> 30] }

OneParams == {p \in Params : p.token = "tokB"}
TwoParams == {p \in Params : p.tag.v \in {"7", "t1"}}
ColumnParams == {p \in Params : p.columns # NoColumns}

Payloads ==
    { <<"1700000000", ",", "P", ",", "0">>,
      <<"1700000001", ",", ",", "5">>,
      <<"1700000002", ",", "1", ",", "2", ",", "3", ",", "4", ",", "5", ",", "6", ",",
        "D", ",", "8", ",", "9">> }

Msg(mt, et, v) == [msg_type |-> mt, error_type |-> et, value |-> v]

Messages ==
    { Msg("control:hello", NoErrorType, <<>>) }
    \cup { Msg("data:update", NoErrorType, v) : v \in Payloads }
    \cup { Msg("data:error", "vehicle_disconnected", <<"">>),
           Msg("data:error", "vehicle_error", <<"Vehicle is offline">>),
           Msg("data:error", "vehicle_error", <<"Some error">>),
           Msg("data:error", "client_error", <<"Can't validate token">>),
           Msg("data:error", "other_error", <<"x">>),
           Msg("data:error", NoErrorType, <<"x">>),
           Msg("data:other", NoErrorType, <<"x">>),
           Msg("<malformed>", NoErrorType, <<>>) }

CoreMessages ==
    {m \in Messages :
        \/ m.msg_type \in {"control:hello", "data:other"}
        \/ m.msg_type = "data:update" /\ m.value[1] = "1700000000"
        \/ m.error_type \in {"vehicle_disconnected", "client_error"}}

FewMessages ==
    {m \in Messages :
        \/ m.msg_type = "control:hello"
        \/ m.msg_type = "data:update" /\ m.value[1] = "1700000000"
        \/ m.error_type = "vehicle_disconnected"}

\* the close codes ws reports: 1006 when no close frame was received (always so
\* before the handshake completes), 1000 for a closing handshake
CloseCodes(w) == IF w.rs = "CONNECTING" THEN {1006} ELSE {1000, 1006}

\* the handshake times out after 6000 ms (line 131) and no health timer is shorter
\* than 10000 ms (lines 135, 143): none fires while the transport is still opening
HandshakeOver(w) == w.rs # "CONNECTING"

CountsDisconnect(m) ==
    m.msg_type = "data:error" /\ m.error_type \in {"vehicle_disconnected", "vehicle_error"}

----------------------------------------------------------------------------
(* The state machine *)

NoCall == [op |-> "none", reconnect |-> FALSE, unsubscribe |-> FALSE,
           state |-> CLOSED, rs |-> "none"]

Init ==
    /\ state = CLOSED
    /\ ws = NoWs
    /\ columns = DEFAULT_COLUMNS
    /\ checkTimeout = NoHandle
    /\ timeouts = 0
    /\ disconnects = 0
    /\ reconnect = TRUE
    /\ tag = NullTag
    /\ lastShiftState = NULL
    /\ timers = {}
    /\ out = <<>>
    /\ act = [name |-> "new"]
    /\ lastCall = NoCall
    /\ given = [tag |-> NullTag, token |-> "", columns |-> DEFAULT_COLUMNS,
                floor |-> DefaultResubscribeDelay]
    /\ openedBy = "none"
    /\ stopSinceOpen = FALSE
    /\ subscribed = NoSubscription
    /\ sentSubscribes = FramesNotKept
    /\ api = ApiNew

Commit(s) ==
    /\ state' = s.state
    /\ ws' = s.ws
    /\ columns' = s.columns
    /\ checkTimeout' = s.checkTimeout
    /\ timeouts' = s.timeouts
    /\ disconnects' = s.disconnects
    /\ reconnect' = s.reconnect
    /\ tag' = s.tag
    /\ lastShiftState' = s.lastShiftState
    /\ timers' = s.timers
    /\ out' = s.out
    /\ api' = api

Opens(s) == \E i \in 1..Len(s.out) : s.out[i].t = "new_ws"

\* the frames of one type a handler put on an open transport; the transports it made;
\* the events of one name it emitted (as positions in `out`)
Sent(o, msg_type) ==
    {i \in 1..Len(o) : o[i].t = "send" /\ o[i].name = msg_type /\ o[i].arg.rs = "OPEN"}

NewTransports(o) == {i \in 1..Len(o) : o[i].t = "new_ws"}

Emitted(o, event) == {i \in 1..Len(o) : o[i].t = "emit" /\ o[i].name = event}

\* the history variable `subscribed` after a handler that leaves the object as s: the
\* value of the subscribe frame it sent, nothing once the transport is gone or new
Subscribes(s, track) ==
    LET S == Sent(s.out, "data:subscribe_oauth")
        frame == s.out[CHOOSE i \in S : \A j \in S : j <= i].arg.frame
    IN
    /\ subscribed' =
            IF ~track THEN subscribed
            ELSE IF S # {} THEN frame.value
            ELSE IF s.ws = NoWs \/ Opens(s) THEN NoSubscription
            ELSE subscribed
    /\ sentSubscribes' =
            IF ~track \/ sentSubscribes = FramesNotKept THEN sentSubscribes
            ELSE IF S # {}
                 THEN [first |-> IF sentSubscribes.first = NoFrame THEN frame
                                 ELSE sentSubscribes.first,
                       last |-> frame]
            ELSE IF s.ws = NoWs \/ Opens(s) THEN NoSubscribes
            ELSE sentSubscribes

\* the caller calls connect(tag, token, columns, resubscribeDelay)
CallConnect(P, track) ==
    \E p \in P :
        LET s == connect(Self, p.tag, p.token, p.columns, p.resubscribeDelay) IN
        /\ Commit(s)
        /\ Subscribes(s, track)
        /\ act' = [name |-> "connect", params |-> p]
        /\ IF track
           THEN /\ lastCall' = [op |-> "connect", reconnect |-> FALSE,
                                unsubscribe |-> FALSE, state |-> state, rs |-> ws.rs]
                /\ given' = [tag |-> p.tag, token |-> p.token, columns |-> s.columns,
                             floor |-> IF Opens(s) THEN p.resubscribeDelay
                                       ELSE given.floor]
                /\ openedBy' = IF Opens(s) THEN "caller" ELSE openedBy
                /\ stopSinceOpen' = IF Opens(s) THEN FALSE ELSE stopSinceOpen
           ELSE UNCHANGED <<lastCall, given, openedBy, stopSinceOpen>>

\* the caller calls disconnect(reconnect, unsubscribe)
CallDisconnect(D, track) ==
    \E d \in D :
        /\ Commit(disconnect(Self, d[1], d[2]))
        /\ Subscribes(disconnect(Self, d[1], d[2]), track)
        /\ act' = [name |-> "disconnect", reconnect |-> d[1], unsubscribe |-> d[2]]
        /\ IF track
           THEN /\ lastCall' = [op |-> "disconnect", reconnect |-> d[1],
                                unsubscribe |-> d[2], state |-> state, rs |-> ws.rs]
                /\ stopSinceOpen' = (stopSinceOpen \/ ~d[1])
                /\ UNCHANGED <<given, openedBy>>
           ELSE UNCHANGED <<lastCall, given, openedBy, stopSinceOpen>>

\* the transport's handshake completes: ws emits 'open'
WsOpen(track) ==
    /\ ws # NoWs
    /\ ws.rs = "CONNECTING"
    /\ Commit(on_open([Self EXCEPT !.ws.rs = "OPEN"]))
    /\ Subscribes(on_open([Self EXCEPT !.ws.rs = "OPEN"]), track)
    /\ act' = [name |-> "open"]
    /\ UNCHANGED <<lastCall, given, openedBy, stopSinceOpen>>

\* a frame of the server arrives: ws emits 'message', also while this side's closing
\* handshake is under way
WsMessage(M, capD, track) ==
    \E m \in M :
        /\ ws # NoWs
        /\ ws.rs \in {"OPEN", "CLOSING"}
        /\ CountsDisconnect(m) => disconnects < capD
        /\ Commit(on_message(Self, m))
        /\ Subscribes(on_message(Self, m), track)
        /\ act' = [name |-> "message", msg |-> m]
        /\ UNCHANGED <<lastCall, given, openedBy, stopSinceOpen>>

\* ws emits 'error'
WsError(track) ==
    /\ ws # NoWs
    /\ Commit(on_error(Self))
    /\ Subscribes(on_error(Self), track)
    /\ act' = [name |-> "error"]
    /\ UNCHANGED <<lastCall, given, openedBy, stopSinceOpen>>

\* the transport closes: ws emits 'close'
WsClose(track) ==
    /\ ws # NoWs
    /\ \E code \in CloseCodes(ws) :
        /\ Commit(on_close(Self, code))
        /\ Subscribes(on_close(Self, code), track)
        /\ act' = [name |-> "close", code |-> code]
    /\ UNCHANGED <<lastCall, given, openedBy, stopSinceOpen>>

\* a pending timer fires: node removes it and runs its callback
TimerFire(capT, track) ==
    \E tm \in timers :
        /\ tm.kind = "health" => timeouts < capT
        /\ tm.kind = "health" => HandshakeOver(ws)
        /\ LET s == on_timer([Self EXCEPT !.timers = @ \ {tm}], tm) IN
            /\ Commit(s)
            /\ Subscribes(s, track)
            /\ IF track
               THEN /\ openedBy' = IF Opens(s) THEN "timer" ELSE openedBy
                    /\ stopSinceOpen' = IF Opens(s) THEN FALSE ELSE stopSinceOpen
               ELSE UNCHANGED <<openedBy, stopSinceOpen>>
        /\ act' = [name |-> "timer", timer |-> tm]
        /\ UNCHANGED <<lastCall, given>>

\* the node timers fire, a handshake that does not fail completes, and a closing
\* handshake ends (ws destroys the socket when the peer does not answer).  The timers
\* are given strong fairness: a timer that incoming frames re-arm again and again is
\* taken to fire in the end.  This only removes behaviours, so a behaviour that
\* violates a property under it is a behaviour of the program.
Fairness(capT, track) ==
    /\ SF_vars(TimerFire(capT, track))
    /\ WF_vars(WsOpen(track))
    /\ WF_vars(ws.rs = "CLOSING" /\ WsClose(track))

\* P: what the caller passes to connect(); D: what it passes to disconnect(); M: what
\* the server sends; capT, capD: the bounds of the two counters; track: whether the
\* history variables are kept
NextOn(P, D, M, capT, capD, track) ==
    \/ CallConnect(P, track)
    \/ CallDisconnect(D, track)
    \/ WsOpen(track)
    \/ WsMessage(M, capD, track)
    \/ WsError(track)
    \/ WsClose(track)
    \/ TimerFire(capT, track)

AllDisconnects == BOOLEAN \X BOOLEAN

\* the life cycle: every call of the caller, the frames that move the connection,
\* the counters up to a low bound
Next == NextOn(OneParams, AllDisconnects, CoreMessages, LowTimeouts, LowDisconnects, TRUE)

Spec == Init /\ [][Next]_vars

\* the parameters: the caller changes tag, token and columns between calls
NextParams ==
    NextOn(TwoParams, {<<FALSE, TRUE>>, <<TRUE, FALSE>>}, FewMessages, LowTimeouts,
           LowDisconnects, TRUE)

SpecParams == Init /\ [][NextParams]_vars

\* the columns: the caller changes the columns between calls, with and without
\* "shift_state"
NextColumns ==
    NextOn(ColumnParams, {<<FALSE, TRUE>>}, FewMessages, LowTimeouts, LowDisconnects, TRUE)

SpecColumns == Init /\ [][NextColumns]_vars

\* the frames: as the columns, with the first and the last subscribe frame of the
\* transport kept
InitFrames ==
    /\ state = CLOSED
    /\ ws = NoWs
    /\ columns = DEFAULT_COLUMNS
    /\ checkTimeout = NoHandle
    /\ timeouts = 0
    /\ disconnects = 0
    /\ reconnect = TRUE
    /\ tag = NullTag
    /\ lastShiftState = NULL
    /\ timers = {}
    /\ out = <<>>
    /\ act = [name |-> "new"]
    /\ lastCall = NoCall
    /\ given = [tag |-> NullTag, token |-> "", columns |-> DEFAULT_COLUMNS,
                floor |-> DefaultResubscribeDelay]
    /\ openedBy = "none"
    /\ stopSinceOpen = FALSE
    /\ subscribed = NoSubscription
    /\ sentSubscribes = NoSubscribes
    /\ api = ApiNew

SpecFrames == InitFrames /\ [][NextColumns]_vars

\* the counters: every frame of the server, the counters up to their bounds
NextCount ==
    NextOn(OneParams, {<<FALSE, TRUE>>}, Messages, MaxTimeouts, MaxDisconnects, FALSE)

SpecCount == Init /\ [][NextCount]_vars

\* the disconnect errors: every frame of the server, the disconnect counter up to its
\* bound
NextDisconnects ==
    NextOn(OneParams, {<<FALSE, TRUE>>}, Messages, LowTimeouts, MaxDisconnects, FALSE)

SpecDisconnects == Init /\ [][NextDisconnects]_vars

\* the stall: a server that sends hello, data and vehicle_disconnected, the disconnect
\* counter up to its bound, and fair timers and transport events
NextStall ==
    NextOn(OneParams, {<<FALSE, TRUE>>}, FewMessages, LowTimeouts, MaxDisconnects, FALSE)

FairSpecStall == Init /\ [][NextStall]_vars /\ Fairness(LowTimeouts, FALSE)

\* the errors: a server that sends hello, data, vehicle_disconnected, client_error and
\* unknown frames, and fair timers and transport events
NextErrors ==
    NextOn(OneParams, {<<FALSE, TRUE>>}, CoreMessages, LowTimeouts, LowDisconnects, FALSE)

FairSpecErrors == Init /\ [][NextErrors]_vars /\ Fairness(LowTimeouts, FALSE)

----------------------------------------------------------------------------
(* #expBackOffMs on its own: the three profiles the client passes, the counter from 0 *)

MaxExp == 12

\* the floors a caller passes as resubscribeDelay
Floors == {0, 1, 5, 15, 30, 60, 119, 120, 121, 200}

\* (minSeconds, maxSeconds, base) of lines 135, 111 and 112
Profiles ==
    { [site |-> "health", minSeconds |-> 10, maxSeconds |-> 30, num |-> 2, k |-> 0],
      [site |-> "fast", minSeconds |-> 0, maxSeconds |-> 8, num |-> 13, k |-> 1] }
    \cup { [site |-> "slow", minSeconds |-> f, maxSeconds |-> 120, num |-> 2, k |-> 0] :
              f \in Floors }

Returned(pr, exp) ==
    << [t |-> "return", name |-> "expBackOffMs",
        arg |-> expBackOffMs(exp, pr.minSeconds, pr.maxSeconds, pr.num, pr.k)] >>

BackoffInit ==
    /\ state = CLOSED
    /\ ws = NoWs
    /\ columns = DEFAULT_COLUMNS
    /\ checkTimeout = NoHandle
    /\ timeouts = 0
    /\ disconnects = 0
    /\ reconnect = TRUE
    /\ tag = NullTag
    /\ lastShiftState = NULL
    /\ timers = {}
    /\ \E pr \in Profiles :
          /\ act = [name |-> "expBackOffMs", profile |-> pr, exp |-> 0]
          /\ out = Returned(pr, 0)
    /\ lastCall = NoCall
    /\ given = [tag |-> NullTag, token |-> "", columns |-> DEFAULT_COLUMNS,
                floor |-> DefaultResubscribeDelay]
    /\ openedBy = "none"
    /\ stopSinceOpen = FALSE
    /\ subscribed = NoSubscription
    /\ sentSubscribes = FramesNotKept
    /\ api = ApiNew

\* the same profile with the counter one higher
BackoffStep ==
    /\ act.exp < MaxExp
    /\ act' = [act EXCEPT !.exp = @ + 1]
    /\ out' = Returned(act.profile, act.exp + 1)
    /\ UNCHANGED <<state, ws, columns, checkTimeout, timeouts, disconnects, reconnect,
                   tag, lastShiftState, timers, lastCall, given, openedBy, stopSinceOpen,
                   subscribed, sentSubscribes, api>>

SpecBackoff == BackoffInit /\ [][BackoffStep]_vars

----------------------------------------------------------------------------
(* TeslaApi.refreshToken (TeslaApi.js) *)

\* what the token endpoint answers to one request of #oauthCall: a 2xx with a JSON
\* object (with or without the two tokens), a 2xx whose body is the JSON null or is
\* not JSON, another status, or no answer (a network error)
OauthResponses ==
    { [kind |-> "object", access_token |-> "a1", refresh_token |-> "r1"],
      [kind |-> "object", access_token |-> "a2", refresh_token |-> "r2"],
      [kind |-> "object", access_token |-> "<undefined>", refresh_token |-> "<undefined>"],
      [kind |-> "null"], [kind |-> "not_json"], [kind |-> "status"], [kind |-> "network"] }

\* what the caller registers with onTokenRefresh: nothing, a function that returns, a
\* function that throws
Callbacks == {"none", "returns", "throws"}

\* refreshToken: the catch block, lines 200-207
refreshCatch(a) ==
    IF a.retry < 3 THEN [a EXCEPT !.pc = "pause"]
    ELSE [a EXCEPT !.pc = "idle", !.settled = "rejected"]

\* refreshToken: lines 193-198, after #oauthCall has resolved with an object
refreshStore(a, r) ==
    LET a1 == [a EXCEPT !.refresh_token = r.refresh_token, !.token = r.access_token]
        a2 == IF a1.cb # "none"
              THEN [a1 EXCEPT !.callbacks = Append(@, <<a1.token, a1.refresh_token>>)]
              ELSE a1
    IN  IF a2.cb = "throws" THEN refreshCatch(a2)
        ELSE [a2 EXCEPT !.pc = "idle", !.settled = "resolved"]

\* refreshToken resumes after the await of line 187: #oauthCall resolves with the
\* parsed body of a 2xx answer and rejects otherwise (lines 150-158); a body that is
\* the JSON null makes line 193 throw a TypeError
refreshResume(a, r) ==
    LET a1 == [a EXCEPT !.response = r] IN
    IF r.kind = "object" THEN refreshStore(a1, r) ELSE refreshCatch(a1)

\* what the caller asks of #apiCall: getVehicles, wakeUp, command
Requests ==
    { [path |-> "", method |-> "GET", params |-> "<undefined>"],
      [path |-> "1/wake_up", method |-> "POST", params |-> "<undefined>"],
      [path |-> "1/command/honk_horn", method |-> "POST", params |-> "{}"] }

\* what the API server answers to one request of #apiCall: a 2xx with a JSON body, a
\* 2xx whose body is not JSON, a 401, another status, or no answer (a network error)
RestResponses ==
    { [kind |-> "json"], [kind |-> "not_json"], [kind |-> "status", code |-> 401],
      [kind |-> "status", code |-> 404], [kind |-> "network"] }

\* this.refresh_token != null (line 82): undefined equals null under !=
hasRefreshToken(a) == a.refresh_token \notin {NullToken, "<undefined>"}

\* refreshToken(refresh_token) runs up to the await of line 187: the first request
\* sent
refreshStart(a, rt) ==
    [a EXCEPT !.pc = "waiting", !.passed = rt, !.retry = 1, !.requests = 1,
              !.callbacks = <<>>, !.response = [kind |-> "none"],
              !.before = [token |-> a.token, refresh_token |-> a.refresh_token,
                          cb |-> a.cb],
              !.settled = "pending"]

\* #apiCall: the response callback, lines 66-93
restResponse(a, r) ==
    IF r.kind = "json" THEN [a EXCEPT !.rest.pc = "idle", !.rest.settled = "resolved"]
    ELSE IF r.kind = "status" /\ r.code = 401 /\ hasRefreshToken(a)
         THEN [refreshStart(a, a.refresh_token) EXCEPT !.rest.pc = "refreshing"]
    ELSE [a EXCEPT !.rest.pc = "idle", !.rest.settled = "rejected"]

\* #apiCall: the promise chain of lines 84-87, once the refreshToken() it started has
\* settled: the same request again, or the rejection passed on
restThen(a) ==
    IF a.rest.pc # "refreshing" \/ a.pc # "idle" THEN a
    ELSE IF a.settled = "resolved" THEN [a EXCEPT !.rest.pc = "waiting"]
    ELSE [a EXCEPT !.rest.pc = "idle", !.rest.settled = "rejected"]

\* new TeslaApi(access_token, id, refresh_token)
ApiConstruct ==
    /\ api.pc = "new"
    /\ \E a \in {NullToken, "a0"}, r \in {NullToken, "r0"} :
          api' = [api EXCEPT !.pc = "idle", !.token = a, !.refresh_token = r]

\* onTokenRefresh(callback)
ApiOnTokenRefresh ==
    /\ api.pc = "idle"
    /\ \E cb \in Callbacks : api' = [api EXCEPT !.cb = cb]

\* refreshToken(refresh_token): runs up to the await of line 187, the first request
\* sent
ApiRefreshToken ==
    /\ api.pc = "idle"
    /\ api.rest.pc = "idle"
    /\ \E rt \in {"r0", "1234"} : api' = refreshStart(api, rt)

\* the token endpoint answers, or the request fails
ApiOauthResponse ==
    /\ api.pc = "waiting"
    /\ \E r \in OauthResponses : api' = restThen(refreshResume(api, r))

\* the 500 ms pause of line 201 is over: refreshToken(refresh_token, retry + 1) sends
\* the next request
ApiPauseOver ==
    /\ api.pc = "pause"
    /\ api' = [api EXCEPT !.pc = "waiting", !.retry = @ + 1, !.requests = @ + 1]

\* the caller calls getVehicles(), wakeUp() or command(): #apiCall sends the request
ApiCall ==
    /\ api.pc = "idle"
    /\ api.rest.pc = "idle"
    /\ \E q \in Requests :
          api' = [api EXCEPT !.rest = [pc |-> "waiting", req |-> q,
                                       settled |-> "pending"]]

\* the API server answers the request of #apiCall, or the request fails
ApiRestResponse ==
    /\ api.rest.pc = "waiting"
    /\ \E r \in RestResponses : api' = restResponse(api, r)

StreamUnchanged ==
    UNCHANGED <<state, ws, columns, checkTimeout, timeouts, disconnects, reconnect, tag,
                lastShiftState, timers, out, act, lastCall, given, openedBy,
                stopSinceOpen, subscribed, sentSubscribes>>

NextApi ==
    \/ ApiConstruct /\ StreamUnchanged
    \/ ApiOnTokenRefresh /\ StreamUnchanged
    \/ ApiRefreshToken /\ StreamUnchanged
    \/ ApiOauthResponse /\ StreamUnchanged
    \/ ApiPauseOver /\ StreamUnchanged

SpecApi == Init /\ [][NextApi]_vars

NextRest ==
    \/ NextApi
    \/ ApiCall /\ StreamUnchanged
    \/ ApiRestResponse /\ StreamUnchanged

\* every request is answered or fails, and the pause of line 202 ends; what the
\* servers answer is left open
FairnessRest ==
    /\ WF_vars(ApiRestResponse /\ StreamUnchanged)
    /\ WF_vars(ApiOauthResponse /\ StreamUnchanged)
    /\ WF_vars(ApiPauseOver /\ StreamUnchanged)

FairSpecRest == Init /\ [][NextRest]_vars /\ FairnessRest

----------------------------------------------------------------------------
(* What the last handler did *)

HealthFired == act.name = "timer" /\ act.timer.kind = "health"
ResubscribeFired == act.name = "timer" /\ act.timer.kind = "resubscribe"
ReconnectFired == act.name = "timer" /\ act.timer.kind = "reconnect"
IsUpdate == act.name = "message" /\ act.msg.msg_type = "data:update"
IsDisconnectError == act.name = "message" /\ CountsDisconnect(act.msg)
IsClientError ==
    act.name = "message" /\ act.msg.msg_type = "data:error"
    /\ act.msg.error_type = "client_error"

\* the caller's last call was disconnect(reconnect=false) in a state other than Closed
Stopped == lastCall.op = "disconnect" /\ ~lastCall.reconnect /\ lastCall.state # CLOSED

----------------------------------------------------------------------------
(* C1 *)

\* C1: once the caller has called disconnect(reconnect=false) in a non-Closed state,
\* and until the caller itself calls connect() again, the reconnect intent stays off,
\* no new transport is opened, and Closed has no pending timer.
C1_StopIsFinal ==
    Stopped =>
        /\ ~reconnect
        /\ NewTransports(out) = {}
        /\ state = CLOSED => timers = {}

----------------------------------------------------------------------------
(* C2 *)

\* C2: after the caller's disconnect(reconnect=false), from any state (Closed with the
\* reconnect timer pending included), no timer is pending.
C2_DisconnectCancels ==
    (act.name = "disconnect" /\ ~act.reconnect) => timers = {}

----------------------------------------------------------------------------
(* C3 *)

Fault ==
    \/ HealthFired
    \/ IsDisconnectError
    \/ IsClientError
    \/ act.name = "close" /\ act.code = 1006

Progress == Sent(out, "data:subscribe_oauth") # {} \/ NewTransports(out) # {}

CallerStops == act.name = "disconnect" /\ ~act.reconnect

AtBound == timeouts >= LowTimeouts \/ disconnects >= MaxDisconnects

\* C3: if the caller never calls disconnect(reconnect=false), every fault (health
\* timeout, vehicle_disconnected, vehicle_error, client_error, abnormal close) is
\* followed by a new subscribe frame or a new transport (up to the bounds of the
\* counters).
C3_NeverStalls == ([]~CallerStops) => (Fault ~> (Progress \/ AtBound))

----------------------------------------------------------------------------
(* C4 *)

\* C4: when a transport opened by a caller's connect() closes, with any code, and the
\* caller has not called disconnect(reconnect=false) since that connect(), a reconnect
\* timer is pending after the close handler.
C4_ReconnectUnlessStopped ==
    (act.name = "close" /\ openedBy = "caller" /\ ~stopSinceOpen)
        => \E tm \in timers : tm.kind = "reconnect"

----------------------------------------------------------------------------
(* C5 *)

\* the caller's last call was disconnect(reconnect=true, unsubscribe=false) on an
\* open transport
ReconnectRequested ==
    lastCall.op = "disconnect" /\ lastCall.reconnect /\ ~lastCall.unsubscribe
    /\ lastCall.rs = "OPEN"

ClosureOf(w) == [tag |-> w.tag, token |-> w.token, columns |-> w.columns]

\* C5: from the caller's disconnect(reconnect=true, unsubscribe=false) on an open
\* transport until the caller's next call: no unsubscribe frame is sent; the close
\* event leaves exactly one pending timer, the 1000 ms reconnect, which holds the tag,
\* token and columns of the connect() that opened the closed transport; a transport is
\* opened only by that timer, exactly one, with the tag, token and columns it holds.
C5_ReconnectOnce ==
    [][ReconnectRequested' =>
        /\ Sent(out', "data:unsubscribe") = {}
        /\ act'.name = "close" =>
              \E tm \in timers' :
                  /\ timers' = {tm}
                  /\ tm.kind = "reconnect" /\ tm.ms = 1000 /\ tm.cl = ClosureOf(ws)
        /\ NewTransports(out') # {} =>
              /\ ReconnectFired'
              /\ Cardinality(NewTransports(out')) = 1
              /\ ClosureOf(ws') = act'.timer.cl
              /\ ws'.rs = "CONNECTING"
    ]_vars

C5_Witness == ReconnectRequested /\ ReconnectFired /\ NewTransports(out) # {}

----------------------------------------------------------------------------
(* C6 *)

\* C6: the transport an automatic reconnect opens, and the frame an automatic
\* resubscribe sends, carry the tag, token and columns of the caller's most recent
\* connect().
C6_LastGivenUsed ==
    /\ ReconnectFired =>
          \A i \in NewTransports(out) :
              /\ out[i].arg.tag.v = given.tag.v
              /\ out[i].arg.token = given.token
              /\ out[i].arg.columns = given.columns
    /\ ResubscribeFired =>
          \A i \in Sent(out, "data:subscribe_oauth") :
              /\ out[i].arg.frame.tag.v = given.tag.v
              /\ out[i].arg.frame.token = given.token
              /\ out[i].arg.frame.value = join(given.columns)

----------------------------------------------------------------------------
(* C7 *)

\* C7: connect() while a transport exists opens no transport, sends no frame, arms or
\* cancels no timer and leaves state, counters, stored tag and stored columns as they
\* were; in Closing it sets the reconnect flag, elsewhere it leaves the flag.
C7_ConnectIsNoOp ==
    [][(act'.name = "connect" /\ ws # NoWs) =>
        /\ ws' = ws /\ state' = state
        /\ timers' = timers /\ checkTimeout' = checkTimeout
        /\ timeouts' = timeouts /\ disconnects' = disconnects
        /\ tag' = tag /\ columns' = columns
        /\ NewTransports(out') = {}
        /\ \A i \in 1..Len(out') : out'[i].t # "send"
        /\ reconnect' = (IF state = CLOSING THEN TRUE ELSE reconnect)
    ]_vars

----------------------------------------------------------------------------
(* C8 *)

\* C8: at most one timer is pending.
C8_OneTimer == Cardinality(timers) <= 1

\* a handler that armed two timers, the health check and then the resubscribe
C8_Witness ==
    IsDisconnectError /\ \E tm \in timers : tm.kind = "resubscribe"

----------------------------------------------------------------------------
(* C9 *)

\* C9: the transport handle is null exactly when the state is Closed.
C9_HandleIffNotClosed == (ws = NoWs) <=> (state = CLOSED)

C9_Witness == act.name = "close" /\ ws = NoWs /\ state = CLOSED /\ timers # {}

----------------------------------------------------------------------------
(* C10 *)

\* C10: every firing of the health timer adds 1 to the timeout counter and emits
\* 'inactive' once when the counter becomes a multiple of 3, and not otherwise; no
\* other handler emits it; the counter returns to 0 on data:update and changes in no
\* other handler.
C10_InactiveEveryThird ==
    [][/\ HealthFired' =>
            /\ timeouts' = timeouts + 1
            /\ Cardinality(Emitted(out', "inactive")) =
                   (IF timeouts' % 3 = 0 THEN 1 ELSE 0)
       /\ ~HealthFired' =>
            /\ Emitted(out', "inactive") = {}
            /\ timeouts' = (IF IsUpdate' THEN 0 ELSE timeouts)
    ]_vars

C10_Witness ==
    HealthFired /\ timeouts = 6 /\ Cardinality(Emitted(out, "inactive")) = 1

----------------------------------------------------------------------------
(* C11 *)

ResubscribeTimers(T) == {tm \in T : tm.kind = "resubscribe"}

\* C11: every disconnect error (vehicle_disconnected, vehicle_error) adds 1 to the
\* disconnect counter; when the counter becomes a multiple of 10 the handler emits
\* 'too-many-disconnects' exactly once and leaves no resubscribe timer; otherwise it
\* does not emit it and leaves exactly one resubscribe timer; no other handler emits
\* 'too-many-disconnects'.
C11_TooManyEveryTenth ==
    [][/\ IsDisconnectError' =>
            /\ disconnects' = disconnects + 1
            /\ IF disconnects' % 10 = 0
               THEN /\ Cardinality(Emitted(out', "too-many-disconnects")) = 1
                    /\ ResubscribeTimers(timers') = {}
               ELSE /\ Emitted(out', "too-many-disconnects") = {}
                    /\ Cardinality(ResubscribeTimers(timers')) = 1
       /\ ~IsDisconnectError' => Emitted(out', "too-many-disconnects") = {}
    ]_vars

C11_Witness ==
    /\ IsDisconnectError /\ disconnects = 10
    /\ Cardinality(Emitted(out, "too-many-disconnects")) = 1
    /\ timers = {}

----------------------------------------------------------------------------
(* C12 *)

\* the position of "shift_state" among the columns of the last subscribe frame
SubscribedShiftStatePos == indexOf(split(subscribed), <<"shift_state">>)

\* C12: every data:update sets the timeout counter and the disconnect counter to 0;
\* when "shift_state" is at position i of the subscribed columns (those of the last
\* subscribe frame sent) it sets lastShiftState to element i+1 of the payload split on
\* commas, and when "shift_state" is not subscribed it leaves lastShiftState as it was.
C12_UpdateResets ==
    [][IsUpdate' =>
        /\ timeouts' = 0
        /\ disconnects' = 0
        /\ subscribed # NoSubscription =>
              lastShiftState' =
                  (IF SubscribedShiftStatePos > -1
                   THEN at(split(act'.msg.value), SubscribedShiftStatePos + 1)
                   ELSE lastShiftState)
    ]_vars

----------------------------------------------------------------------------
(* C13 *)

RECURSIVE withCommas(_)
\* the strings of a list written one after the other with a comma between them
withCommas(strs) ==
    IF Len(strs) = 0 THEN <<>>
    ELSE IF Len(strs) = 1 THEN strs[1]
    ELSE strs[1] \o <<",">> \o withCommas(Tail(strs))

\* a list of strings is the payload split on commas, in wire order
IsSplitOf(strs, payload) ==
    /\ Len(strs) >= 1
    /\ \A i \in 1..Len(strs) : \A j \in 1..Len(strs[i]) : strs[i][j] # ","
    /\ withCommas(strs) = payload

\* C13: the handler of a data:update message emits 'stream' exactly once, with the
\* payload split on commas in wire order (the payload "1700000000,P,0" gives
\* ["1700000000", "P", "0"]); no other handler emits 'stream'.
C13_StreamPerUpdate ==
    /\ IsUpdate =>
          /\ Cardinality(Emitted(out, "stream")) = 1
          /\ \A i \in Emitted(out, "stream") :
                /\ IsSplitOf(out[i].arg, act.msg.value)
                /\ act.msg.value = <<"1700000000", ",", "P", ",", "0">>
                      => out[i].arg = << <<"1700000000">>, <<"P">>, <<"0">> >>
    /\ ~IsUpdate => Emitted(out, "stream") = {}

C13_Witness ==
    /\ IsUpdate
    /\ \E i \in Emitted(out, "stream") :
          out[i].arg = << <<"1700000001">>, <<>>, <<"5">> >>

----------------------------------------------------------------------------
(* C14 *)

AbnormalClose == act.name = "close" /\ act.code = 1006

ReconnectTimers(T) == {tm \in T : tm.kind = "reconnect" /\ tm.ms = 1000}

\* C14, as claimed: after a close event with code 1006, in whatever state it came, the
\* reconnect flag is true, the state is Closed and the 1000 ms reconnect timer is
\* pending.
C14_AbnormalForcesReconnect ==
    AbnormalClose =>
        /\ reconnect
        /\ state = CLOSED
        /\ ReconnectTimers(timers) # {}

\* C14, amended: a close event with code 1006 leaves the client Closed without a
\* transport; when it comes in Connecting or Connected the reconnect flag is forced
\* to true and the 1000 ms reconnect timer is the one pending timer; when it comes in
\* Closing the flag keeps its value and the reconnect timer is armed only if the flag
\* is true.  The reconnect timer, when it fires, finds the client Closed and takes it
\* to Connecting with one new transport.
C14_AbnormalOutsideClosing ==
    [][/\ AbnormalClose' =>
            /\ state' = CLOSED /\ ws' = NoWs
            /\ reconnect' = (IF state # CLOSING THEN TRUE ELSE reconnect)
            /\ timers' = ReconnectTimers(timers')
            /\ Cardinality(timers') = (IF reconnect' THEN 1 ELSE 0)
       /\ ReconnectFired' =>
            /\ state = CLOSED /\ state' = CONNECTING
            /\ Cardinality(NewTransports(out')) = 1
    ]_vars

\* the flag forced against the caller's disconnect(false)
C14_Witness ==
    AbnormalClose /\ Stopped /\ reconnect /\ ReconnectTimers(timers) # {}

----------------------------------------------------------------------------
(* C15 *)

\* the transport has just opened and its 'open' listener is the one a disconnect()
\* during the handshake put in place
DeferredOpen == act.name = "open" /\ ws # NoWs /\ ws.onOpen.kind = "deferred"

\* C15: when the transport opens after a disconnect(reconnect, unsubscribe) made while
\* it was opening, no subscribe frame is sent and the client is Closing, with the
\* reconnect flag of the deferred call, and an unsubscribe frame sent exactly when the
\* deferred call asked for it.
C15_DeferredDisconnect ==
    DeferredOpen =>
        /\ Sent(out, "data:subscribe_oauth") = {}
        /\ state = CLOSING
        /\ reconnect = ws.onOpen.reconnect
        /\ (Sent(out, "data:unsubscribe") # {}) <=> ws.onOpen.unsubscribe

----------------------------------------------------------------------------
(* C16 *)

Least(a, b) == IF a < b THEN a ELSE b

\* C16, as claimed: for every profile the client passes, any floor of the caller
\* included, the delay does not decrease when the counter grows and lies between
\* floor * 1000 and ceiling * 1000.
C16_BackoffWithinBounds ==
    [][/\ out'[1].arg >= out[1].arg
       /\ act'.profile.minSeconds * 1000 <= out'[1].arg
       /\ out'[1].arg <= act'.profile.maxSeconds * 1000
    ]_vars

\* C16, amended: the delay does not decrease when the counter grows and lies between
\* min(floor, ceiling) * 1000 and ceiling * 1000: it is below floor * 1000 exactly
\* when the floor is above the ceiling, and then it is the ceiling.
C16_BackoffClamped ==
    [][LET pr == act'.profile
           ms == out'[1].arg
       IN  /\ ms >= out[1].arg
           /\ Least(pr.minSeconds, pr.maxSeconds) * 1000 <= ms
           /\ ms <= pr.maxSeconds * 1000
           /\ pr.minSeconds > pr.maxSeconds => ms = pr.maxSeconds * 1000
           /\ out[1].arg >= Least(act.profile.minSeconds, act.profile.maxSeconds) * 1000
    ]_vars

\* 1.3^7 = 6.2748517 s, a delay strictly between its floor and its ceiling
C16_Witness ==
    /\ act.name = "expBackOffMs"
    /\ act.profile.site = "fast" /\ act.exp = 7 /\ out[1].arg = 6275

----------------------------------------------------------------------------
(* C17 *)

CallerDisconnects == act.name = "disconnect"

----------------------------------------------------------------------------
(* C18 *)

\* round(1.3^n * 1000) capped at 8000, for n = 1, 2, ...: the fast profile, written out
FastDelays == <<1300, 1690, 2197, 2856, 3713, 4827, 6275, 8000, 8000, 8000, 8000, 8000>>

\* the slow profile: 2^n seconds, not below the floor, not above 120
SlowDelay(n, floor) ==
    LET p == pow(2, n)
        lifted == IF p < floor THEN floor ELSE p
    IN  Least(lifted, 120) * 1000

\* C18: the resubscribe timer a disconnect error arms has the fast delay for the
\* incremented disconnect counter when lastShiftState is a non-empty string, and the
\* slow delay for the incremented counter, with the floor in effect on the
\* transport, when lastShiftState is null, undefined or empty.
C18_ProfileByShiftState ==
    IsDisconnectError =>
        \A tm \in ResubscribeTimers(timers) :
            tm.ms = (IF lastShiftState \notin {NULL, UNDEFINED, <<>>}
                     THEN FastDelays[disconnects]
                     ELSE SlowDelay(disconnects, ws.resubscribeDelay))

C18_Witness ==
    /\ IsDisconnectError /\ lastShiftState = <<"P">> /\ disconnects = 3
    /\ \E tm \in ResubscribeTimers(timers) : tm.ms = 2197

----------------------------------------------------------------------------
(* C19 *)

\* C19: when a disconnect error arms the resubscribe timer with the slow profile,
\* the floor of the delay is the resubscribeDelay of the caller's connect() that
\* opened the connection, also on a transport opened since by an automatic reconnect.
C19_FloorIsCallers ==
    (IsDisconnectError /\ lastShiftState \in {NULL, UNDEFINED, <<>>}) =>
        \A tm \in ResubscribeTimers(timers) : tm.ms = SlowDelay(disconnects, given.floor)

----------------------------------------------------------------------------
(* C20 *)

IsVehicleError ==
    act.name = "message" /\ act.msg.msg_type = "data:error"
    /\ act.msg.error_type = "vehicle_error"

SaysOffline == act.msg.value = <<"Vehicle is offline">>

\* C20: the handler of a vehicle_error whose text says the vehicle is offline emits
\* 'offline' once and does nothing of the vehicle_disconnected handling (the
\* disconnect counter stays, no resubscribe timer, no 'too-many-disconnects'); the
\* handler of any other vehicle_error emits no 'offline' and increments the disconnect
\* counter; no other handler emits 'offline'.
C20_OfflineOrResubscribe ==
    [][/\ (IsVehicleError' /\ SaysOffline') =>
            /\ Cardinality(Emitted(out', "offline")) = 1
            /\ disconnects' = disconnects
            /\ ResubscribeTimers(timers') = {}
            /\ Emitted(out', "too-many-disconnects") = {}
       /\ (IsVehicleError' /\ ~SaysOffline') =>
            /\ Emitted(out', "offline") = {}
            /\ disconnects' = disconnects + 1
       /\ ~IsVehicleError' => Emitted(out', "offline") = {}
    ]_vars

----------------------------------------------------------------------------
(* C21 *)

----------------------------------------------------------------------------
(* C22 *)

\* a frame that parses and has an unrecognized msg_type, or is a data:error without
\* error_type
IsProtocolError ==
    /\ act.name = "message"
    /\ \/ act.msg.msg_type \notin {"control:hello", "data:update", "data:error", "<malformed>"}
       \/ act.msg.msg_type = "data:error" /\ act.msg.error_type = NoErrorType

\* C22: the handler of a frame with an unrecognized msg_type, or of a data:error
\* without error_type, emits 'error' exactly once, sends no frame and leaves the
\* state, both counters, lastShiftState, the reconnect flag and the transport as they
\* were.
C22_ProtocolErrorOnlyEmits ==
    [][IsProtocolError' =>
        /\ Cardinality(Emitted(out', "error")) = 1
        /\ \A i \in 1..Len(out') : out'[i].t \notin {"send", "new_ws", "throw"}
        /\ state' = state
        /\ timeouts' = timeouts /\ disconnects' = disconnects
        /\ lastShiftState' = lastShiftState
        /\ reconnect' = reconnect
        /\ ws' = ws
    ]_vars

C22_Witness ==
    /\ IsProtocolError /\ act.msg.msg_type = "data:error" /\ state = CONNECTED
    /\ disconnects = 2 /\ Cardinality(Emitted(out, "error")) = 1

----------------------------------------------------------------------------
(* C23 *)

\* C23: the timeout counter changes only by the reset to 0 of a data:update and by
\* +1 when the health timer fires; the disconnect counter only by the reset to 0 of a
\* data:update and by +1 on a vehicle_disconnected or vehicle_error message; neither
\* is negative; control:hello, connect(), disconnect(), a close event and a reconnect
\* change neither.
C23_CountersMonotone ==
    [][/\ timeouts' = (IF IsUpdate' THEN 0
                       ELSE IF HealthFired' THEN timeouts + 1
                       ELSE timeouts)
       /\ disconnects' = (IF IsUpdate' THEN 0
                          ELSE IF IsDisconnectError' THEN disconnects + 1
                          ELSE disconnects)
       /\ timeouts' >= 0 /\ disconnects' >= 0
    ]_vars

\* both counters kept over a close event
C23_Witness == act.name = "close" /\ timeouts = 2 /\ disconnects = 3

----------------------------------------------------------------------------
(* C24 *)

\* C24: lastShiftState changes only in the handler of a data:update, and only when
\* the columns of the last subscribe frame sent on the transport include
\* "shift_state".
C24_ShiftStateOnlyByUpdate ==
    [][lastShiftState' # lastShiftState =>
        /\ IsUpdate'
        /\ subscribed # NoSubscription => SubscribedShiftStatePos > -1
    ]_vars

----------------------------------------------------------------------------
(* C25 *)

FailureEvents == {"inactive", "too-many-disconnects", "offline", "error"}

\* C25: in every handler, each emission of 'inactive', 'too-many-disconnects',
\* 'offline' or 'error' comes after a log call of the same handler.
C25_LogBeforeEmit ==
    \A i \in 1..Len(out) :
        (out[i].t = "emit" /\ out[i].name \in FailureEvents)
            => \E j \in 1..(i - 1) : out[j].t = "log"

----------------------------------------------------------------------------
(* C26 *)

\* C26: from Closing the state goes only to Closed: no handler takes it to Connected
\* or Connecting.
C26_ClosingOnlyToClosed ==
    [][state = CLOSING => state' \in {CLOSING, CLOSED}]_vars

----------------------------------------------------------------------------
(* C27 *)

\* C27: every frame a handler sends goes out on a transport that is open (not
\* closing), and the resubscribe timer fires only while the transport is open.
C27_SendOnlyWhenOpen ==
    /\ \A i \in 1..Len(out) : out[i].t = "send" => out[i].arg.rs = "OPEN"
    /\ ResubscribeFired => (ws # NoWs /\ ws.rs = "OPEN")

----------------------------------------------------------------------------
(* C28 *)

\* C28: an unsubscribe frame carries the tag of the subscribe frame last sent on the
\* transport, and a subscribe frame the resubscribe timer sends carries the tag and
\* the columns of the first subscribe frame of the transport.
C28_FramesAgree ==
    /\ sentSubscribes.last # NoFrame =>
          \A i \in Sent(out, "data:unsubscribe") :
              out[i].arg.frame.tag.v = sentSubscribes.last.tag.v
    /\ ResubscribeFired =>
          \A i \in Sent(out, "data:subscribe_oauth") :
              /\ out[i].arg.frame.tag.v = sentSubscribes.first.tag.v
              /\ out[i].arg.frame.value = sentSubscribes.first.value

----------------------------------------------------------------------------
(* C29 *)

\* C29: while the state is Connecting or Connected and the transport is opening or
\* open, exactly one timer is pending, the health check or a resubscribe; after the
\* resubscribe timer has fired and sent its subscribe frame, it is the health check.
C29_TimerWhileConnected ==
    /\ (state \in {CONNECTING, CONNECTED} /\ ws # NoWs /\ ws.rs \in {"CONNECTING", "OPEN"})
          => /\ Cardinality(timers) = 1
             /\ \A tm \in timers : tm.kind \in {"health", "resubscribe"}
    /\ (ResubscribeFired /\ Sent(out, "data:subscribe_oauth") # {})
          => \E tm \in timers : tm.kind = "health"

\* C30: a refreshToken() call sends at most 3 token requests; when it resolves the
\* stored tokens are those of the answer and the registered callback has been invoked
\* exactly once, with those two values; when it rejects all 3 requests were sent, the
\* stored tokens are those from before the call and the callback was not invoked.
\* Violated: the try of lines 186-199 also encloses the callback, so a callback that
\* throws is answered like a failed request.
C30_RefreshThreeAttempts ==
    /\ api.requests <= 3
    /\ Len(api.callbacks) <= 1
    /\ api.settled = "resolved" =>
          /\ api.response.kind = "object"
          /\ api.token = api.response.access_token
          /\ api.refresh_token = api.response.refresh_token
          /\ api.before.cb # "none" =>
                api.callbacks = << <<api.token, api.refresh_token>> >>
    /\ api.settled = "rejected" =>
          /\ api.requests = 3
          /\ api.token = api.before.token
          /\ api.refresh_token = api.before.refresh_token
          /\ api.callbacks = <<>>

----------------------------------------------------------------------------
(* C31 *)

\* C31: every call of the REST API settles, whatever the servers answer: a call that
\* is pending is resolved or rejected in the end.
\* Violated: a 401 with a refresh token stored starts refreshToken() and then the same
\* request again (lines 82-89) with no count of the rounds, so an API server that
\* answers 401 after every successful refresh keeps the call pending for ever.
C31_CallSettles == (api.rest.settled = "pending") ~> (api.rest.settled # "pending")

====
